---------------------------- MODULE Spec2Model ----------------------------
(***************************************************************************)
(* Connect Four with a minimax / alpha-beta engine.                        *)
(*   connect_four_ai_core.py : board helpers, win detection, heuristic,    *)
(*                             minimax                                     *)
(*   connect_four_app.py     : the Streamlit shell (session state, column  *)
(*                             buttons, Play Again, the AI turn)           *)
(*                                                                         *)
(* Boards are functions row -> column -> cell, rows 0..ROW_COUNT-1 with    *)
(* row 0 at the bottom, as the numpy array board[r][c] of the source.      *)
(*                                                                         *)
(* Scores.  The terminal scores of minimax are +/-10^14 and its bounds     *)
(* start at +/-math.inf; TLC's integers are 32 bits wide.  A score is the  *)
(* pair <<w, h>> that stands for the number w * 10^14 + h, with w = 2 for  *)
(* +inf and w = -2 for -inf.  Every heuristic value h lies strictly        *)
(* between -10^14 and 10^14 (69 windows of at most 100000 each), so the    *)
(* lexicographic order of the pairs is the numeric order of the scores.    *)
(***************************************************************************)
EXTENDS Integers, Sequences, FiniteSets, TLC

VARIABLES
    board,       \* st.session_state.board; the board handed to the engine
    turn,        \* st.session_state.turn
    game_over,   \* st.session_state.game_over
    winner,      \* st.session_state.winner
    pc,          \* "run": a script run is due; "drawn": the run is past
                 \* draw_board; "idle": the run has ended, the page is shown
    buttons,     \* the column buttons the last script run rendered enabled
    reset_shown, \* the last script run rendered the Play Again button
    reset_click, \* the Play Again button reports True to the run that is due
    res          \* the last engine call: its arguments and what it returned

vars == <<board, turn, game_over, winner, pc, buttons, reset_shown,
          reset_click, res>>

-----------------------------------------------------------------------------
(* Game constants, connect_four_ai_core.py lines 7-12 *)

ROW_COUNT == 6
COLUMN_COUNT == 7
PLAYER_PIECE == 1
AI_PIECE == 2
EMPTY == 0
WINDOW_LENGTH == 4

\* Python's None (a missing column, a missing row)
None == -1

Rows == 0 .. (ROW_COUNT - 1)
Cols == 0 .. (COLUMN_COUNT - 1)

\* np.zeros((ROW_COUNT, COLUMN_COUNT), dtype=int)
EmptyBoard == [r \in Rows |-> [c \in Cols |-> EMPTY]]

-----------------------------------------------------------------------------
(* Scores *)

\* a search value that starts at 0 instead of -inf
NegInfAsZero == <<0, 0>>

NegInf == <<-2, 0>>
PosInf == <<2, 0>>
AiWinScore == <<1, 0>>
PlayerWinScore == <<-1, 0>>
DrawScore == <<0, 0>>
Heuristic(h) == <<0, h>>

\* a < b on scores
ScoreLess(a, b) == \/ a[1] < b[1]
                   \/ (a[1] = b[1] /\ a[2] < b[2])

\* max(a, b), min(a, b) as Python computes them (the first argument on a tie)
ScoreMax(a, b) == IF ScoreLess(a, b) THEN b ELSE a
ScoreMin(a, b) == IF ScoreLess(b, a) THEN b ELSE a

-----------------------------------------------------------------------------
(* Board helpers *)

is_valid_location(b, col) == b[ROW_COUNT - 1][col] = EMPTY

\* the scan run from the top row down: the highest empty row
GetNextOpenRowFromTop(b, col) ==
    IF \E r \in Rows : b[r][col] = EMPTY
    THEN CHOOSE r \in Rows : /\ b[r][col] = EMPTY
                             /\ \A q \in Rows : q > r => b[q][col] # EMPTY
    ELSE None

\* the first r of range(ROW_COUNT) with an empty cell; falls off the loop
\* (returns None) when the column is full
get_next_open_row(b, col) ==
    IF \E r \in Rows : b[r][col] = EMPTY
    THEN CHOOSE r \in Rows : /\ b[r][col] = EMPTY
                             /\ \A q \in Rows : q < r => b[q][col] # EMPTY
    ELSE None

RECURSIVE ValidFrom(_, _)
ValidFrom(b, col) ==
    IF col >= COLUMN_COUNT THEN <<>>
    ELSE IF is_valid_location(b, col)
         THEN <<col>> \o ValidFrom(b, col + 1)
         ELSE ValidFrom(b, col + 1)

\* the valid columns in ascending order
get_valid_locations(b) == ValidFrom(b, 0)

-----------------------------------------------------------------------------
(* Win detection *)

WinHorizontal(b, piece) ==
    \E c \in 0 .. (COLUMN_COUNT - 4) : \E r \in 0 .. (ROW_COUNT - 1) :
        \A i \in 0 .. 3 : b[r][c + i] = piece

WinVertical(b, piece) ==
    \E c \in 0 .. (COLUMN_COUNT - 1) : \E r \in 0 .. (ROW_COUNT - 4) :
        \A i \in 0 .. 3 : b[r + i][c] = piece

WinPosDiag(b, piece) ==
    \E c \in 0 .. (COLUMN_COUNT - 4) : \E r \in 0 .. (ROW_COUNT - 4) :
        \A i \in 0 .. 3 : b[r + i][c + i] = piece

\* the falling diagonals with the start rows 4 .. 5 only
WinNegDiagFromRow4(b, piece) ==
    \E c \in 0 .. (COLUMN_COUNT - 4) : \E r \in 4 .. (ROW_COUNT - 1) :
        \A i \in 0 .. 3 : b[r - i][c + i] = piece

WinNegDiag(b, piece) ==
    \E c \in 0 .. (COLUMN_COUNT - 4) : \E r \in 3 .. (ROW_COUNT - 1) :
        \A i \in 0 .. 3 : b[r - i][c + i] = piece

is_winning_move(b, piece) ==
    \/ WinHorizontal(b, piece)
    \/ WinVertical(b, piece)
    \/ WinPosDiag(b, piece)
    \/ WinNegDiag(b, piece)

is_terminal_node(b) ==
    \/ is_winning_move(b, PLAYER_PIECE)
    \/ is_winning_move(b, AI_PIECE)
    \/ Len(get_valid_locations(b)) = 0

-----------------------------------------------------------------------------
(* Heuristic *)

\* window.count(x) on a list of WINDOW_LENGTH = 4 cells
Count(window, x) ==
    (IF window[1] = x THEN 1 ELSE 0) + (IF window[2] = x THEN 1 ELSE 0)
    + (IF window[3] = x THEN 1 ELSE 0) + (IF window[4] = x THEN 1 ELSE 0)

evaluate_window(window, piece) ==
    LET opp_piece == IF piece = PLAYER_PIECE THEN AI_PIECE ELSE PLAYER_PIECE
        n_piece == Count(window, piece)
        n_empty == Count(window, EMPTY)
        n_opp == Count(window, opp_piece)
        own == IF n_piece = 4 THEN 100000
               ELSE IF n_piece = 3 /\ n_empty = 1 THEN 50
               ELSE IF n_piece = 2 /\ n_empty = 2 THEN 5
               ELSE 0
        threat == IF n_opp = 3 /\ n_empty = 1 THEN 4000 ELSE 0
    IN  own - threat

\* the four cells from (r, c) in steps of (dr, dc)
Window(b, r, c, dr, dc) ==
    <<b[r][c], b[r + dr][c + dc], b[r + 2 * dr][c + 2 * dc],
      b[r + 3 * dr][c + 3 * dc]>>

\* s[1] + ... + s[n]
RECURSIVE SumUpTo(_, _)
SumUpTo(s, n) == IF n = 0 THEN 0 ELSE s[n] + SumUpTo(s, n - 1)

\* the bonus counted on the column left of the centre
CenterScoreOffByOne(b, piece) ==
    Cardinality({r \in Rows : b[r][COLUMN_COUNT \div 2 - 1] = piece}) * 3

\* 1. the centre column: center_count * 3
CenterScore(b, piece) ==
    Cardinality({r \in Rows : b[r][COLUMN_COUNT \div 2] = piece}) * 3

\* 2. every horizontal window: rows 0..5, start columns 0..3
HorizontalScore(b, piece) ==
    SumUpTo([k \in 1 .. (ROW_COUNT * (COLUMN_COUNT - 3)) |->
                evaluate_window(Window(b, (k - 1) \div (COLUMN_COUNT - 3),
                                       (k - 1) % (COLUMN_COUNT - 3), 0, 1),
                                piece)],
            ROW_COUNT * (COLUMN_COUNT - 3))

\* 3. every vertical window: columns 0..6, start rows 0..2
VerticalScore(b, piece) ==
    SumUpTo([k \in 1 .. (COLUMN_COUNT * (ROW_COUNT - 3)) |->
                evaluate_window(Window(b, (k - 1) % (ROW_COUNT - 3),
                                       (k - 1) \div (ROW_COUNT - 3), 1, 0),
                                piece)],
            COLUMN_COUNT * (ROW_COUNT - 3))

\* 4. both diagonals: start rows 0..2, start columns 0..3; the rising one
\* from (r, c), the falling one from (r + 3, c)
DiagonalScore(b, piece) ==
    SumUpTo([k \in 1 .. ((ROW_COUNT - 3) * (COLUMN_COUNT - 3)) |->
                LET r == (k - 1) \div (COLUMN_COUNT - 3)
                    c == (k - 1) % (COLUMN_COUNT - 3)
                IN  evaluate_window(Window(b, r, c, 1, 1), piece)
                    + evaluate_window(Window(b, r + 3, c, -1, 1), piece)],
            (ROW_COUNT - 3) * (COLUMN_COUNT - 3))

score_position(b, piece) ==
    CenterScore(b, piece) + HorizontalScore(b, piece)
    + VerticalScore(b, piece) + DiagonalScore(b, piece)

-----------------------------------------------------------------------------
(* Minimax with alpha-beta pruning                                         *)
(*                                                                         *)
(* The engine works on numpy arrays, which are objects: board.copy() makes *)
(* a new array and temp_board[row][col] = piece writes into an array.  A   *)
(* heap is a sequence of arrays and a reference is an index into it.  The  *)
(* search is depth first and each frame rebinds temp_board on every turn   *)
(* of its loop, so a frame whose board is heap[ref] keeps its one live     *)
(* copy at heap[ref + 1]; what lies above belongs to finished calls.       *)

\* temp_board = board: no copy, the same array
BoardAlias(heap, ref) == [heap |-> heap, ref |-> ref]

\* board.copy(): a new array with the cells of heap[ref]
BoardCopy(heap, ref) ==
    [heap |-> SubSeq(heap, 1, ref) \o <<heap[ref]>>, ref |-> ref + 1]

\* temp_board[row][col] = piece
SetCell(heap, ref, row, col, piece) ==
    [heap EXCEPT ![ref] = [@ EXCEPT ![row] = [@ EXCEPT ![col] = piece]]]

\* lines 150-152 / 173-175: the child array of one column
ChildBoard(heap, ref, col, piece) ==
    LET row == get_next_open_row(heap[ref], col)
        temp_board == BoardCopy(heap, ref)
    IN  [heap |-> SetCell(temp_board.heap, temp_board.ref, row, col, piece),
         ref |-> temp_board.ref]

\* random.choice(valid_locations): seed picks the member.  Every choice is
\* available to the caller by letting seed range over 0 .. COLUMN_COUNT - 1.
random_choice(valid_locations, seed) ==
    valid_locations[(seed % Len(valid_locations)) + 1]

\* the comparison turned round: if alpha <= beta: break
CutoffReversed(alpha, beta) == ~ScoreLess(beta, alpha)

\* if alpha >= beta: break
Cutoff(alpha, beta) == ~ScoreLess(alpha, beta)

\* the leaf with the depth test first: a board with no winner gets the
\* heuristic even when it is full
LeafScoreHeuristicOnDraw(b, is_terminal) ==
    IF is_winning_move(b, AI_PIECE) THEN <<1, 0>>
    ELSE IF is_winning_move(b, PLAYER_PIECE) THEN <<-1, 0>>
    ELSE <<0, score_position(b, AI_PIECE)>>

\* lines 129-142: the two kinds of leaf
LeafScore(b, is_terminal) ==
    IF is_terminal
    THEN IF is_winning_move(b, AI_PIECE) THEN AiWinScore
         ELSE IF is_winning_move(b, PLAYER_PIECE) THEN PlayerWinScore
         ELSE DrawScore
    ELSE Heuristic(score_position(b, AI_PIECE))

RECURSIVE minimax(_, _, _, _, _, _, _)
RECURSIVE MaxLoop(_, _, _, _, _, _, _, _, _, _, _)
RECURSIVE MinLoop(_, _, _, _, _, _, _, _, _, _, _)

\* lines 149-165: the maximizing loop from the i-th valid column on.
\* calls counts the calls of minimax made so far (it is not program state).
MaxLoop(heap, ref, depth, alpha, beta, valid_locations, i, value, column, seed, calls) ==
    IF i > Len(valid_locations)
    THEN [column |-> column, value |-> value, heap |-> heap,
          calls |-> calls]
    ELSE LET col == valid_locations[i]
             child == ChildBoard(heap, ref, col, AI_PIECE)
             sub == minimax(child.heap, child.ref, depth - 1, alpha, beta,
                            FALSE, seed)
             new_score == sub.value
             better == ScoreLess(value, new_score)
             value2 == IF better THEN new_score ELSE value
             column2 == IF better THEN col ELSE column
             alpha2 == ScoreMax(alpha, value2)
         IN  IF Cutoff(alpha2, beta)
             THEN [column |-> column2, value |-> value2, heap |-> sub.heap,
                   calls |-> calls + sub.calls]
             ELSE MaxLoop(sub.heap, ref, depth, alpha2, beta,
                          valid_locations, i + 1, value2, column2, seed,
                          calls + sub.calls)

\* lines 172-188: the minimizing loop from the i-th valid column on
MinLoop(heap, ref, depth, alpha, beta, valid_locations, i, value, column, seed, calls) ==
    IF i > Len(valid_locations)
    THEN [column |-> column, value |-> value, heap |-> heap,
          calls |-> calls]
    ELSE LET col == valid_locations[i]
             child == ChildBoard(heap, ref, col, PLAYER_PIECE)
             sub == minimax(child.heap, child.ref, depth - 1, alpha, beta,
                            TRUE, seed)
             new_score == sub.value
             better == ScoreLess(new_score, value)
             value2 == IF better THEN new_score ELSE value
             column2 == IF better THEN col ELSE column
             beta2 == ScoreMin(beta, value2)
         IN  IF Cutoff(alpha, beta2)
             THEN [column |-> column2, value |-> value2, heap |-> sub.heap,
                   calls |-> calls + sub.calls]
             ELSE MinLoop(sub.heap, ref, depth, alpha, beta2,
                          valid_locations, i + 1, value2, column2, seed,
                          calls + sub.calls)

\* minimax(board, depth, alpha, beta, maximizing_player) on the array
\* heap[ref]; returns the column, the score, the heap as the call left it
\* and the number of calls of minimax it took, itself included
minimax(heap, ref, depth, alpha, beta, maximizing_player, seed) ==
    LET b == heap[ref]
        valid_locations == get_valid_locations(b)
        is_terminal == is_terminal_node(b)
    IN  IF depth = 0 \/ is_terminal
        THEN [column |-> None, value |-> LeafScore(b, is_terminal),
              heap |-> heap, calls |-> 1]
        ELSE IF maximizing_player
        THEN MaxLoop(heap, ref, depth, alpha, beta, valid_locations, 1,
                     NegInf, random_choice(valid_locations, seed), seed, 1)
        ELSE MinLoop(heap, ref, depth, alpha, beta, valid_locations, 1,
                     PosInf, random_choice(valid_locations, seed), seed, 1)

-----------------------------------------------------------------------------
(* The Streamlit shell, connect_four_app.py                                *)
(*                                                                         *)
(* A session is single threaded: a widget callback runs, then the script   *)
(* (main) runs from the top; st.rerun() ends the run and starts another.   *)
(* A widget is live from the moment a run renders it.  A click that        *)
(* arrives while the run is still going stops the run at its next st.*     *)
(* call; the callback runs and the script starts again from the top.       *)
(* draw_board follows every column button with st.markdown calls (lines    *)
(* 59-69), so a click on a column button during draw_board stops the run   *)
(* before check_game_state (line 116).  Between the Play Again button      *)
(* (line 29) and line 122 there is no st.* call, so a run that renders     *)
(* Play Again always goes through check_game_state.                        *)

SEARCH_DEPTH == 4

\* bounds of the model: the seeds tried for random.choice, and the number
\* of pieces on the board up to which the human still clicks
MaxSeed == 1
MaxPieces == 9
\* the columns the human clicks
ClickCols == {0, 2}

Seeds == 0 .. MaxSeed

PieceCount(b) == Cardinality({rc \in Rows \X Cols : b[rc[1]][rc[2]] # EMPTY})

\* no engine call yet
NoCall == [board |-> EmptyBoard, depth |-> None, maximizing |-> FALSE,
           seed |-> None, column |-> None, value |-> DrawScore,
           after |-> EmptyBoard, calls |-> 0]

\* board[row][col] = piece on the one live array
Place(b, col, piece) ==
    [b EXCEPT ![get_next_open_row(b, col)] = [@ EXCEPT ![col] = piece]]

\* check_game_state(board): the session's game_over and winner afterwards
check_game_state(b, go, w) ==
    IF is_winning_move(b, PLAYER_PIECE)
    THEN [game_over |-> TRUE, winner |-> PLAYER_PIECE]
    ELSE IF is_winning_move(b, AI_PIECE)
    THEN [game_over |-> TRUE, winner |-> AI_PIECE]
    ELSE IF Len(get_valid_locations(b)) = 0
    THEN [game_over |-> TRUE, winner |-> EMPTY]
    ELSE [game_over |-> go, winner |-> w]

\* the column buttons draw_board renders enabled (line 54)
EnabledButtons(b, t) ==
    {c \in Cols : is_valid_location(b, c) /\ t # AI_PIECE}

Init ==
    /\ board = EmptyBoard
    /\ turn = PLAYER_PIECE
    /\ game_over = FALSE
    /\ winner = EMPTY
    /\ pc = "run"
    /\ buttons = {}
    /\ reset_shown = FALSE
    /\ reset_click = FALSE
    /\ res = NoCall

\* a click on an enabled column button, on the finished page or while the
\* run that rendered the button is still in draw_board (the rest of that run
\* is dropped): player_move_callback(col), then a script run
Click(col) ==
    /\ pc \in {"drawn", "idle"}
    /\ col \in buttons
    /\ PieceCount(board) < MaxPieces
    /\ IF turn = PLAYER_PIECE /\ is_valid_location(board, col)
       THEN /\ board' = Place(board, col, PLAYER_PIECE)
            /\ turn' = AI_PIECE
       ELSE UNCHANGED <<board, turn>>
    /\ pc' = "run"
    /\ UNCHANGED <<game_over, winner, buttons, reset_shown, reset_click, res>>

\* a click on Play Again: the button reports True to the next run
PlayAgain ==
    /\ pc = "idle"
    /\ reset_shown
    /\ reset_click' = TRUE
    /\ pc' = "run"
    /\ UNCHANGED <<board, turn, game_over, winner, buttons, reset_shown, res>>

\* main() with game_over set: draw_board shows the result and Play Again
MainGameOver ==
    /\ pc = "run"
    /\ game_over
    /\ IF reset_click
       THEN \* lines 29-35: reset the session, st.rerun()
            /\ board' = EmptyBoard
            /\ game_over' = FALSE
            /\ turn' = PLAYER_PIECE
            /\ winner' = EMPTY
            /\ pc' = "run"
            /\ reset_shown' = FALSE
       ELSE \* draw_board returns; main goes on to check_game_state
            LET st == check_game_state(board, game_over, winner)
            IN  /\ game_over' = st.game_over
                /\ winner' = st.winner
                /\ pc' = "idle"
                /\ reset_shown' = TRUE
                /\ UNCHANGED <<board, turn>>
    /\ buttons' = {}
    /\ reset_click' = FALSE
    /\ UNCHANGED res

\* main() with game_over clear, up to the return of draw_board: the turn
\* text, the column buttons and the pieces are rendered
draw_board ==
    /\ pc = "run"
    /\ ~game_over
    /\ buttons' = EnabledButtons(board, turn)
    /\ reset_shown' = FALSE
    /\ reset_click' = FALSE
    /\ pc' = "drawn"
    /\ UNCHANGED <<board, turn, game_over, winner, res>>

\* the rest of main() after draw_board, with no AI turn to run:
\* check_game_state runs, the run ends
MainDraw ==
    /\ pc = "drawn"
    /\ LET st == check_game_state(board, game_over, winner)
       IN  /\ ~(turn = AI_PIECE /\ ~st.game_over)
           /\ game_over' = st.game_over
           /\ winner' = st.winner
    /\ pc' = "idle"
    /\ UNCHANGED <<board, turn, buttons, reset_shown, reset_click, res>>

\* the rest of main() after draw_board when it reaches ai_turn_logic
MainAi(seed) ==
    /\ pc = "drawn"
    /\ LET st == check_game_state(board, game_over, winner)
       IN  /\ turn = AI_PIECE /\ ~st.game_over
           /\ \E r \in {minimax(<<board>>, 1, SEARCH_DEPTH, NegInf, PosInf,
                                TRUE, seed)} :
              LET b1 == r.heap[1]
              IN  IF r.column # None /\ is_valid_location(b1, r.column)
                  THEN \* the AI's piece, the turn goes back, st.rerun()
                       /\ board' = Place(b1, r.column, AI_PIECE)
                       /\ turn' = PLAYER_PIECE
                       /\ game_over' = st.game_over
                       /\ winner' = st.winner
                       /\ pc' = "run"
                  ELSE LET st2 == check_game_state(b1, st.game_over,
                                                   st.winner)
                       IN  /\ board' = b1
                           /\ game_over' = st2.game_over
                           /\ winner' = st2.winner
                           /\ pc' = "idle"
                           /\ UNCHANGED turn
    /\ UNCHANGED <<buttons, reset_shown, reset_click, res>>

Next ==
    \/ \E col \in ClickCols : Click(col)
    \/ PlayAgain
    \/ MainGameOver
    \/ draw_board
    \/ MainDraw
    \/ \E seed \in Seeds : MainAi(seed)

Spec == Init /\ [][Next]_vars

-----------------------------------------------------------------------------
(* The engine on its own: minimax applied to boards drawn from game lines  *)
(*                                                                         *)
(* A game line is a sequence of columns played in turn.  The boards handed *)
(* to the engine are the positions along a line from its entry `from` on,  *)
(* with either side moving first, so every board is one that drops from    *)
(* the empty board produce.                                                *)

\* bounds of the model: the depths the engine is called with
MaxDepth == 2
DeepDepth == 3

Other(piece) == IF piece = PLAYER_PIECE THEN AI_PIECE ELSE PLAYER_PIECE

\* the board after the first n moves of a line, `first` moving first
RECURSIVE PlayLine(_, _, _)
PlayLine(cols, n, first) ==
    IF n = 0 THEN EmptyBoard
    ELSE Place(PlayLine(cols, n - 1, first), cols[n],
               IF n % 2 = 1 THEN first ELSE Other(first))

BoardsOf(lines) ==
    UNION {{PlayLine(l.cols, n, first) :
               n \in l.from .. Len(l.cols),
               first \in {PLAYER_PIECE, AI_PIECE}} : l \in lines}

\* a game the app plays (the human on columns 0 and 2, the AI wins in
\* column 3); a game that fills the board with no four in a row, from 38
\* pieces on; a row of three open at one end; a diagonal four
SearchLines ==
    { [cols |-> <<0, 3, 2, 3, 2, 3, 2, 3>>, from |-> 0],
      [cols |-> <<6, 4, 6, 2, 3, 0, 0, 2, 1, 6, 6, 2, 4, 6, 4, 5, 3, 6, 1,
                  5, 1, 3, 0, 5, 2, 1, 2, 0, 2, 3, 5, 4, 1, 1, 4, 3, 5, 4,
                  3, 5, 0, 0>>, from |-> 38],
      [cols |-> <<4, 5, 4, 0, 3, 4, 3, 0, 2>>, from |-> 5],
      [cols |-> <<0, 1, 1, 2, 2, 3, 2, 3, 3, 6, 3>>, from |-> 7] }

\* positions with a row of three and a playable cell that completes it
DeepLines ==
    { [cols |-> <<2, 3, 5, 3, 4, 2, 2, 4, 3>>, from |-> 5],
      [cols |-> <<3, 1, 5, 6, 3, 1, 5, 0, 4, 6, 4, 0, 1>>, from |-> 9] }

\* one call minimax(board, depth, -inf, +inf, maximizing) as the caller
\* sees it: the arguments, the result, and the caller's array afterwards.
\* Each behaviour makes one call on its board.
Search(depth, maximizing, seed) ==
    /\ pc = "search"
    /\ res = NoCall
    /\ \E r \in {minimax(<<board>>, 1, depth, NegInf, PosInf, maximizing,
                         seed)} :
          /\ res' = [board |-> board, depth |-> depth,
                     maximizing |-> maximizing, seed |-> seed,
                     column |-> r.column, value |-> r.value,
                     after |-> r.heap[1], calls |-> r.calls]
          /\ board' = r.heap[1]
    /\ UNCHANGED <<turn, game_over, winner, pc, buttons, reset_shown,
                   reset_click>>

InitOn(boards) ==
    /\ board \in boards
    /\ turn = AI_PIECE
    /\ game_over = FALSE
    /\ winner = EMPTY
    /\ pc = "search"
    /\ buttons = {}
    /\ reset_shown = FALSE
    /\ reset_click = FALSE
    /\ res = NoCall

InitSearch == InitOn(BoardsOf(SearchLines))

NextSearch ==
    \E depth \in 0 .. MaxDepth : \E maximizing \in BOOLEAN :
        \E seed \in Seeds : Search(depth, maximizing, seed)

SpecSearch == InitSearch /\ [][NextSearch]_vars

InitDeep == InitOn(BoardsOf(DeepLines))

NextDeep ==
    \E depth \in 1 .. DeepDepth : \E seed \in Seeds :
        Search(depth, TRUE, seed)

SpecDeep == InitDeep /\ [][NextDeep]_vars

-----------------------------------------------------------------------------
(* Win detection on its own: is_winning_move applied to painted boards    *)
(*                                                                         *)
(* A painted board holds a run of WINDOW_LENGTH cells of one piece from a  *)
(* start cell in one of the four directions (clipped at the edge of the    *)
(* board when it does not fit), optionally with one cell of the run        *)
(* holding something else, on a background that is empty or full of the    *)
(* other piece.                                                            *)

Directions == {<<0, 1>>, <<1, 0>>, <<1, 1>>, <<-1, 1>>}

Paint(r0, c0, d, piece, hole, holev, bg) ==
    [r \in Rows |-> [c \in Cols |->
        IF \E i \in 0 .. (WINDOW_LENGTH - 1) :
               r = r0 + i * d[1] /\ c = c0 + i * d[2]
        THEN IF hole # None /\ r = r0 + hole * d[1] /\ c = c0 + hole * d[2]
             THEN holev
             ELSE piece
        ELSE bg]]

PaintedBoards ==
    {Paint(rc[1], rc[2], d, pb[1], hole, holev, pb[2]) :
        rc \in Rows \X Cols,
        d \in Directions,
        pb \in {<<PLAYER_PIECE, EMPTY>>, <<PLAYER_PIECE, AI_PIECE>>,
                <<AI_PIECE, EMPTY>>, <<AI_PIECE, PLAYER_PIECE>>},
        hole \in {None} \cup (0 .. (WINDOW_LENGTH - 1)),
        holev \in {EMPTY, PLAYER_PIECE, AI_PIECE}}

\* no call of is_winning_move yet
NoCheck == [piece |-> None, win |-> FALSE]

InitWin ==
    /\ board \in PaintedBoards
    /\ turn = PLAYER_PIECE
    /\ game_over = FALSE
    /\ winner = EMPTY
    /\ pc = "win"
    /\ buttons = {}
    /\ reset_shown = FALSE
    /\ reset_click = FALSE
    /\ res = NoCheck

\* one call is_winning_move(board, piece)
CheckWin(piece) ==
    /\ pc = "win"
    /\ res = NoCheck
    /\ res' = [piece |-> piece, win |-> is_winning_move(board, piece)]
    /\ UNCHANGED <<board, turn, game_over, winner, pc, buttons, reset_shown,
                   reset_click>>

NextWin == \E piece \in {PLAYER_PIECE, AI_PIECE} : CheckWin(piece)

SpecWin == InitWin /\ [][NextWin]_vars

-----------------------------------------------------------------------------
(* Claims about the shell *)

\* a cell holds a piece only if every cell below it in its column does
Gravity(b) ==
    \A c \in Cols : \A r \in Rows :
        b[r][c] # EMPTY => \A q \in 0 .. (r - 1) : b[q][c] # EMPTY

\* the array minimax builds for column col of board b
ChildOf(b, col, piece) ==
    LET child == ChildBoard(<<b>>, 1, col, piece) IN child.heap[child.ref]

\* C7: gravity holds on the live board in every state of the app (clicks,
\* AI moves, Play Again), and on every child board minimax builds from it
\* for either side.
C7_Gravity ==
    /\ Gravity(board)
    /\ \A col \in Cols : \A piece \in {PLAYER_PIECE, AI_PIECE} :
          is_valid_location(board, col) =>
              Gravity(ChildOf(board, col, piece))

\* C7 witness: a game in progress with both sides' pieces stacked in one
\* column
C7_Witness ==
    /\ PieceCount(board) >= 6
    /\ \E c \in Cols : \E r \in Rows :
          /\ r >= 1
          /\ board[r][c] = AI_PIECE
          /\ board[r - 1][c] = PLAYER_PIECE

\* C10: once the live board is game-over no piece is placed on it until
\* Play Again resets it, and the recorded winner does not change until
\* then.
C10_FrozenAfterGameOver ==
    [][/\ is_terminal_node(board) =>
            \/ board' = board
            \/ (reset_click /\ board' = EmptyBoard)
       /\ game_over =>
            \/ winner' = winner
            \/ (reset_click /\ winner' = EMPTY)]_vars

-----------------------------------------------------------------------------
(* Claims about the engine *)

Called == res.depth # None

ValidSet(b) == {c \in Cols : is_valid_location(b, c)}

\* the columns where dropping piece makes four in a row at once
WinCols(b, piece) ==
    {c \in ValidSet(b) : is_winning_move(ChildOf(b, c, piece), piece)}

\* the cell (r, c) lies on the board
OnBoard(r, c) == r \in Rows /\ c \in Cols

\* piece holds three cells in a row and the cell next to one end of them,
\* in column col, is the cell a drop into col fills
CompletesThree(b, col, piece) ==
    /\ is_valid_location(b, col)
    /\ LET row == get_next_open_row(b, col)
       IN  \E d \in {<<0, 1>>, <<0, -1>>, <<1, 0>>, <<-1, 0>>, <<1, 1>>,
                     <<-1, -1>>, <<1, -1>>, <<-1, 1>>} :
               \A i \in 1 .. 3 :
                   /\ OnBoard(row + i * d[1], col + i * d[2])
                   /\ b[row + i * d[1]][col + i * d[2]] = piece

ThreeCols(b, piece) == {c \in Cols : CompletesThree(b, c, piece)}

\* the search with the cut-off removed: plain minimax over all valid columns
RECURSIVE Plain(_, _, _)
Plain(b, depth, maximizing) ==
    LET is_terminal == is_terminal_node(b)
    IN  IF depth = 0 \/ is_terminal THEN LeafScore(b, is_terminal)
        ELSE LET piece == IF maximizing THEN AI_PIECE ELSE PLAYER_PIECE
                 scores == {Plain(ChildOf(b, c, piece), depth - 1,
                                  ~maximizing) : c \in ValidSet(b)}
             IN  IF maximizing
                 THEN CHOOSE v \in scores :
                          \A w \in scores : ~ScoreLess(v, w)
                 ELSE CHOOSE v \in scores :
                          \A w \in scores : ~ScoreLess(w, v)

\* the valid columns whose subtree has the best plain score
BestCols(b, depth, maximizing) ==
    LET piece == IF maximizing THEN AI_PIECE ELSE PLAYER_PIECE
        best == Plain(b, depth, maximizing)
    IN  {c \in ValidSet(b) :
            Plain(ChildOf(b, c, piece), depth - 1, ~maximizing) = best}

\* the number of calls the search makes with the cut-off removed
RECURSIVE TreeSize(_, _, _)
TreeSize(b, depth, maximizing) ==
    IF depth = 0 \/ is_terminal_node(b) THEN 1
    ELSE LET piece == IF maximizing THEN AI_PIECE ELSE PLAYER_PIECE
             cs == get_valid_locations(b)
         IN  1 + SumUpTo([k \in 1 .. Len(cs) |->
                             TreeSize(ChildOf(b, cs[k], piece), depth - 1,
                                      ~maximizing)], Len(cs))

\* C1: on a non-terminal board where AI_PIECE has three in a row and a
\* playable cell completes them, minimax at depth >= 1 for the maximizing
\* side returns a column that completes four, with score +10^14.
C1_TakesTheWin ==
    (/\ Called
     /\ res.maximizing
     /\ res.depth >= 1
     /\ ~is_terminal_node(res.board)
     /\ ThreeCols(res.board, AI_PIECE) # {})
    => /\ res.column \in WinCols(res.board, AI_PIECE)
       /\ res.value = AiWinScore

\* C2: on a non-terminal board where PLAYER_PIECE has three in a row, one
\* playable cell completes four for PLAYER_PIECE and AI_PIECE has no
\* column that wins at once, minimax at depth >= 1 for the maximizing side
\* returns the column of that cell.
C2_BlocksTheThreat ==
    (/\ Called
     /\ res.maximizing
     /\ res.depth >= 1
     /\ ~is_terminal_node(res.board)
     /\ WinCols(res.board, AI_PIECE) = {}
     /\ ThreeCols(res.board, PLAYER_PIECE) # {}
     /\ Cardinality(WinCols(res.board, PLAYER_PIECE)) = 1)
    => res.column \in WinCols(res.board, PLAYER_PIECE)

\* C3: called with alpha = -inf and beta = +inf, minimax returns the score
\* of the same search without the cut-off, at every depth and for both
\* sides.
C3_PruningKeepsScore ==
    Called => res.value = Plain(res.board, res.depth, res.maximizing)

\* C3 witness: a call at depth >= 2 in which the cut-off skipped part of
\* the tree
C3_Witness ==
    /\ Called
    /\ res.depth >= 2
    /\ res.calls < TreeSize(res.board, res.depth, res.maximizing)

\* C4: on the empty board minimax for the maximizing side returns the
\* centre column, 3, at every depth >= 1.
C4_EmptyBoardCentre ==
    (Called /\ res.board = EmptyBoard /\ res.maximizing /\ res.depth >= 1)
    => res.column = 3

\* C4 witness: the deepest call on the empty board
C4_Witness ==
    /\ Called
    /\ res.board = EmptyBoard
    /\ res.maximizing
    /\ res.depth = MaxDepth
    /\ res.column = COLUMN_COUNT \div 2

\* C5: on a terminal board minimax returns no column and +10^14 if
\* AI_PIECE has four in a row, else -10^14 if PLAYER_PIECE has, else 0, at
\* every depth (0 included) and for both sides; never the heuristic.
C5_TerminalScore ==
    (Called /\ is_terminal_node(res.board))
    => /\ res.column = None
       /\ res.value =
             IF is_winning_move(res.board, AI_PIECE) THEN AiWinScore
             ELSE IF is_winning_move(res.board, PLAYER_PIECE)
                  THEN PlayerWinScore
             ELSE DrawScore

\* C5 witness: the full board with no four in a row, searched at depth > 0
C5_Witness ==
    /\ Called
    /\ res.depth > 0
    /\ ValidSet(res.board) = {}
    /\ ~is_winning_move(res.board, AI_PIECE)
    /\ ~is_winning_move(res.board, PLAYER_PIECE)
    /\ res.column = None
    /\ res.value = DrawScore

\* the cells where two boards differ
DiffCells(b1, b2) == {rc \in Rows \X Cols : b1[rc[1]][rc[2]] # b2[rc[1]][rc[2]]}

\* C8: minimax leaves the caller's board as it was, and the array it
\* explores for a column is a copy: another array, which differs from the
\* parent in the one cell dropped into, while the parent stays unchanged.
C8_BoardUntouched ==
    Called =>
        /\ res.after = res.board
        /\ board = res.board
        /\ \A col \in ValidSet(res.board) :
           \A piece \in {PLAYER_PIECE, AI_PIECE} :
              LET child == ChildBoard(<<res.board>>, 1, col, piece)
              IN  /\ child.ref # 1
                  /\ child.heap[1] = res.board
                  /\ DiffCells(child.heap[child.ref], res.board)
                        = {<<get_next_open_row(res.board, col), col>>}
                  /\ child.heap[child.ref]
                        [get_next_open_row(res.board, col)][col] = piece

\* C8 witness: a search two plies deep that visited several columns
C8_Witness ==
    /\ Called
    /\ res.depth >= 2
    /\ res.calls > COLUMN_COUNT
    /\ res.after = res.board
    /\ PieceCount(res.board) > 0

\* several valid columns tie for the best score at the root
TieAtRoot ==
    /\ Called
    /\ res.depth >= 1
    /\ ~is_terminal_node(res.board)
    /\ Cardinality(BestCols(res.board, res.depth, res.maximizing)) >= 2

\* C9 as claimed: where several columns tie for the best score the column
\* returned depends on the seed, so some other seed returns another column.
C9_SeedDecidesTies ==
    TieAtRoot =>
        \E s \in 0 .. (COLUMN_COUNT - 1) :
            minimax(<<res.board>>, 1, res.depth, NegInf, PosInf,
                    res.maximizing, s).column # res.column

\* C9 amended: the seed never survives the scan.  Called with alpha = -inf
\* and beta = +inf on a non-terminal board at depth >= 1, minimax returns
\* the lowest valid column among those with the best score, whatever the
\* seed.
C9_FirstBestColumn ==
    (Called /\ res.depth >= 1 /\ ~is_terminal_node(res.board))
    => /\ res.column \in BestCols(res.board, res.depth, res.maximizing)
       /\ \A c \in BestCols(res.board, res.depth, res.maximizing) :
             res.column <= c

\* C9 witness: a tie at the root, searched with a seed that is not the
\* column returned
C9_Witness ==
    /\ TieAtRoot
    /\ random_choice(get_valid_locations(res.board), res.seed) # res.column

-----------------------------------------------------------------------------
(* Claims about win detection *)

\* four consecutive cells in one line, all on the board, all of piece
FourInLine(b, piece) ==
    \E r \in Rows : \E c \in Cols : \E d \in Directions :
        \A i \in 0 .. 3 :
            /\ OnBoard(r + i * d[1], c + i * d[2])
            /\ b[r + i * d[1]][c + i * d[2]] = piece

\* C6: is_winning_move(board, piece) is true exactly when four consecutive
\* cells of a row, a column, a rising or a falling diagonal that fit on the
\* board all hold piece.
C6_WinIffFourInLine ==
    res.piece # None => (res.win <=> FourInLine(board, res.piece))

\* C6 witness: a board whose only four in a line is a falling diagonal,
\* found by the call
C6_Witness ==
    /\ res.piece # None
    /\ res.win
    /\ WinNegDiag(board, res.piece)
    /\ ~WinHorizontal(board, res.piece)
    /\ ~WinVertical(board, res.piece)
    /\ ~WinPosDiag(board, res.piece)

=============================================================================
